---- MODULE Spec2Model ----
(***************************************************************************)
(* Railway reservation system (src/railway_reservation.cpp).               *)
(*                                                                         *)
(* Strings are sequences of one-character strings, so that the CSV         *)
(* writer and the CSV parser are modelled character by character.  A file  *)
(* is a sequence of lines, the header line included.                       *)
(*                                                                         *)
(* Spec is the whole program, with each load of a CSV file as one step;    *)
(* TrainLoadSpec and TicketLoadSpec are loadTrainsFromCSV and              *)
(* loadTicketsFromCSV taken one line of the file at a time; BookingSpec    *)
(* is bookTicket taken one draw of generateBookingId at a time.            *)
(***************************************************************************)
EXTENDS Integers, Sequences, FiniteSets, TLC

VARIABLES trains, bookings, pc, run, trainsCsv, ticketsCsv, last, load, call

vars == <<trains, bookings, pc, run, trainsCsv, ticketsCsv, last, load, call>>

(***************************************************************************)
(* Bounds of the model.                                                    *)
(***************************************************************************)
MaxTickets == 2        \* bookTicket is only tried while the ledger is smaller
MaxRuns == 2           \* number of process runs (start .. exit) explored
MaxTrainRows == 2      \* data rows of an input trains.csv
MaxTicketRows == 2     \* data rows of an input tickets.csv
MaxIdChars == 2        \* characters of chars the generator draws from (36 in the code)

(***************************************************************************)
(* Strings, integers and their text form.                                  *)
(***************************************************************************)
IntMax == 2147483647    \* the largest int

DigitChars == <<"0", "1", "2", "3", "4", "5", "6", "7", "8", "9">>

IsDigit(c) == \E i \in 1..10 : DigitChars[i] = c

DigitVal(c) == (CHOOSE i \in 1..10 : DigitChars[i] = c) - 1

IsSpace(c) == c = " "

RECURSIVE NatToString(_)
NatToString(n) ==
    IF n < 10 THEN <<DigitChars[n + 1]>>
    ELSE NatToString(n \div 10) \o <<DigitChars[(n % 10) + 1]>>

\* operator<<(std::ostream&, int)
IntToString(n) == IF n < 0 THEN <<"-">> \o NatToString(-n) ELSE NatToString(n)

RECURSIVE SkipSpaces(_)
SkipSpaces(s) == IF s # <<>> /\ IsSpace(Head(s)) THEN SkipSpaces(Tail(s)) ELSE s

\* value of the longest prefix of digits of s, starting from acc; -1 when it
\* exceeds IntMax
RECURSIVE DigitsValue(_, _)
DigitsValue(s, acc) ==
    IF s = <<>> \/ ~IsDigit(Head(s)) THEN acc
    ELSE IF acc > (IntMax - DigitVal(Head(s))) \div 10 THEN -1
    ELSE DigitsValue(Tail(s), acc * 10 + DigitVal(Head(s)))

\* std::stoi: leading blanks, an optional sign, then digits; whatever follows
\* the digits is ignored.  ok = FALSE stands for std::invalid_argument and
\* std::out_of_range (a magnitude above IntMax).
Stoi(token) ==
    LET s    == SkipSpaces(token)
        neg  == s # <<>> /\ Head(s) = "-"
        sgn  == s # <<>> /\ Head(s) \in {"-", "+"}
        body == IF sgn THEN Tail(s) ELSE s
        mag  == DigitsValue(body, 0)
    IN  IF body = <<>> \/ ~IsDigit(Head(body)) THEN [ok |-> FALSE, val |-> 0]
        ELSE IF mag < 0 THEN [ok |-> FALSE, val |-> 0]
        ELSE [ok |-> TRUE, val |-> IF neg THEN -mag ELSE mag]

\* std::getline(ss, token, ','): fails on an exhausted stream, else takes the
\* characters up to the next comma (or to the end) and drops that comma.
GetLine(stream) ==
    IF stream = <<>> THEN [ok |-> FALSE, token |-> <<>>, rest |-> <<>>]
    ELSE IF \E i \in 1..Len(stream) : stream[i] = ","
         THEN LET i == CHOOSE j \in 1..Len(stream) :
                          /\ stream[j] = ","
                          /\ \A k \in 1..(j - 1) : stream[k] # ","
              IN  [ok |-> TRUE, token |-> SubSeq(stream, 1, i - 1),
                   rest |-> SubSeq(stream, i + 1, Len(stream))]
         ELSE [ok |-> TRUE, token |-> stream, rest |-> <<>>]

RECURSIVE JoinComma(_)
JoinComma(fields) ==
    IF fields = <<>> THEN <<>>
    ELSE IF Len(fields) = 1 THEN fields[1]
    ELSE fields[1] \o <<",">> \o JoinComma(Tail(fields))

\* F applied to the value of v, with v worked out once
With(v, F(_)) == CHOOSE y \in {F(x) : x \in {v}} : TRUE

\* the tokens that up to n calls of std::getline(ss, token, ',') in a row
\* read from the stream, ending at the first call that fails, and what is
\* left of the stream
RECURSIVE ReadFields(_, _, _)
ReadFields(stream, n, tokens) ==
    IF n = 0 \/ stream = <<>> THEN [tokens |-> tokens, rest |-> stream]
    ELSE With(GetLine(stream),
              LAMBDA g : ReadFields(g.rest, n - 1, Append(tokens, g.token)))

(***************************************************************************)
(* std::vector<bool>, as its size and the set of the positions that hold   *)
(* false; positions are counted from 1, as seat numbers are.               *)
(***************************************************************************)
\* resize(n, true) of an empty vector
AllTrue(n) == [size |-> n, off |-> {}]

\* v[i - 1]
At(v, i) == i \notin v.off

\* v[i - 1] = b
Put(v, i, b) == [v EXCEPT !.off = IF b THEN @ \ {i} ELSE @ \cup {i}]

(***************************************************************************)
(* class Train.  At(seatAvailability, i) means seat i is available.        *)
(***************************************************************************)
\* Train::Train with a seat vector one element short
NewTrain_oneless(id, name, seats) ==
    IF id <= 0 \/ name = <<>> \/ seats <= 0
    THEN [ok |-> FALSE,
          train |-> [trainId |-> id, trainName |-> name, totalSeats |-> seats,
                     seatAvailability |-> AllTrue(0)]]
    ELSE [ok |-> TRUE,
          train |-> [trainId |-> id, trainName |-> name, totalSeats |-> seats,
                     seatAvailability |-> AllTrue(seats - 1)]]

\* Train::Train; ok = FALSE stands for InvalidInputException
NewTrain(id, name, seats) ==
    IF id <= 0 \/ name = <<>> \/ seats <= 0
    THEN [ok |-> FALSE,
          train |-> [trainId |-> id, trainName |-> name, totalSeats |-> seats,
                     seatAvailability |-> AllTrue(0)]]
    ELSE [ok |-> TRUE,
          train |-> [trainId |-> id, trainName |-> name, totalSeats |-> seats,
                     seatAvailability |-> AllTrue(seats)]]

getAvailableSeatsCount(train) ==
    Cardinality({i \in 1..train.seatAvailability.size : At(train.seatAvailability, i)})

\* bookNextAvailableSeat returning the seat without marking it taken
bookNextAvailableSeat_nomark(train) ==
    IF \E i \in 1..train.totalSeats : At(train.seatAvailability, i)
    THEN [ok |-> TRUE,
          seat |-> CHOOSE i \in 1..train.totalSeats :
                      /\ At(train.seatAvailability, i)
                      /\ \A j \in 1..(i - 1) : ~At(train.seatAvailability, j),
          train |-> train]
    ELSE [ok |-> FALSE, seat |-> 0, train |-> train]

\* bookNextAvailableSeat without the throw: a full train hands out its last seat
bookNextAvailableSeat_nothrow(train) ==
    LET s == IF \E i \in 1..train.totalSeats : At(train.seatAvailability, i)
             THEN CHOOSE i \in 1..train.totalSeats :
                      /\ At(train.seatAvailability, i)
                      /\ \A j \in 1..(i - 1) : ~At(train.seatAvailability, j)
             ELSE train.totalSeats
    IN  [ok |-> TRUE, seat |-> s,
         train |-> [train EXCEPT !.seatAvailability = Put(@, s, FALSE)]]

\* bookNextAvailableSeat scanning from the last seat down
bookNextAvailableSeat_highest(train) ==
    IF \E i \in 1..train.totalSeats : At(train.seatAvailability, i)
    THEN LET s == CHOOSE i \in 1..train.totalSeats :
                      /\ At(train.seatAvailability, i)
                      /\ \A j \in (i + 1)..train.totalSeats :
                            ~At(train.seatAvailability, j)
         IN  [ok |-> TRUE, seat |-> s,
              train |-> [train EXCEPT !.seatAvailability = Put(@, s, FALSE)]]
    ELSE [ok |-> FALSE, seat |-> 0, train |-> train]

\* ok = FALSE stands for NoSeatsAvailableException
bookNextAvailableSeat(train) ==
    IF \E i \in 1..train.totalSeats : At(train.seatAvailability, i)
    THEN LET s == CHOOSE i \in 1..train.totalSeats :
                      /\ At(train.seatAvailability, i)
                      /\ \A j \in 1..(i - 1) : ~At(train.seatAvailability, j)
         IN  [ok |-> TRUE, seat |-> s,
              train |-> [train EXCEPT !.seatAvailability = Put(@, s, FALSE)]]
    ELSE [ok |-> FALSE, seat |-> 0, train |-> train]

\* bookSpecificSeat reporting success without marking the seat taken
bookSpecificSeat_nomark(train, seatNumber) ==
    IF seatNumber < 1 \/ seatNumber > train.totalSeats
    THEN [thrown |-> TRUE, ret |-> FALSE, train |-> train]
    ELSE [thrown |-> FALSE, ret |-> At(train.seatAvailability, seatNumber),
          train |-> train]

\* bookSpecificSeat taking a seat whether or not it is available
bookSpecificSeat_resell(train, seatNumber) ==
    IF seatNumber < 1 \/ seatNumber > train.totalSeats
    THEN [thrown |-> TRUE, ret |-> FALSE, train |-> train]
    ELSE [thrown |-> FALSE, ret |-> TRUE,
          train |-> [train EXCEPT !.seatAvailability = Put(@, seatNumber, FALSE)]]

\* thrown = TRUE stands for SeatNotFoundException
bookSpecificSeat(train, seatNumber) ==
    IF seatNumber < 1 \/ seatNumber > train.totalSeats
    THEN [thrown |-> TRUE, ret |-> FALSE, train |-> train]
    ELSE IF At(train.seatAvailability, seatNumber)
    THEN [thrown |-> FALSE, ret |-> TRUE,
          train |-> [train EXCEPT !.seatAvailability = Put(@, seatNumber, FALSE)]]
    ELSE [thrown |-> FALSE, ret |-> FALSE, train |-> train]

\* cancelSeat reporting success without marking the seat available
cancelSeat_nofree(train, seatNumber) ==
    IF seatNumber < 1 \/ seatNumber > train.totalSeats
    THEN [thrown |-> TRUE, ret |-> FALSE, train |-> train]
    ELSE [thrown |-> FALSE, ret |-> ~At(train.seatAvailability, seatNumber),
          train |-> train]

\* thrown = TRUE stands for SeatNotFoundException
cancelSeat(train, seatNumber) ==
    IF seatNumber < 1 \/ seatNumber > train.totalSeats
    THEN [thrown |-> TRUE, ret |-> FALSE, train |-> train]
    ELSE IF ~At(train.seatAvailability, seatNumber)
    THEN [thrown |-> FALSE, ret |-> TRUE,
          train |-> [train EXCEPT !.seatAvailability = Put(@, seatNumber, TRUE)]]
    ELSE [thrown |-> FALSE, ret |-> FALSE, train |-> train]

(***************************************************************************)
(* class Ticket.  The constructor stamps the ticket with the current time. *)
(***************************************************************************)
\* Ticket::Ticket; ok = FALSE stands for InvalidInputException
NewTicket(id, train, seat, passenger, now) ==
    [ok |-> ~(id = <<>> \/ train <= 0 \/ seat <= 0 \/ passenger = <<>>),
     ticket |-> [bookingId |-> id, trainId |-> train, seatNumber |-> seat,
                 passengerName |-> passenger, bookingTime |-> now]]

(***************************************************************************)
(* class ReservationSystem: the registry (trains) and the ledger           *)
(* (bookings, a map from booking ID to ticket).                            *)
(***************************************************************************)
NoBookings == [id \in {} |-> id]

\* std::unordered_map::emplace: no effect when the key is already present
emplace(bk, id, ticket) ==
    IF id \in DOMAIN bk THEN bk
    ELSE [k \in (DOMAIN bk) \cup {id} |-> IF k = id THEN ticket ELSE bk[k]]

\* erase that leaves the entry in place
erase_keep(bk, id) == bk

\* erase that clears the whole map
erase_all(bk, id) == NoBookings

\* std::unordered_map::erase
erase(bk, id) == [k \in (DOMAIN bk) \ {id} |-> bk[k]]

\* findTrainRef scanning the registry from its end: the last train with the ID
findTrainRef_last(tr, trainId) ==
    IF \E i \in 1..Len(tr) : tr[i].trainId = trainId
    THEN CHOOSE i \in 1..Len(tr) :
             /\ tr[i].trainId = trainId
             /\ \A j \in (i + 1)..Len(tr) : tr[j].trainId # trainId
    ELSE 0

\* findTrain / findTrainRef: position of the first train with the ID, 0 for
\* TrainNotFoundException
findTrainRef(tr, trainId) ==
    IF \E i \in 1..Len(tr) : tr[i].trainId = trainId
    THEN CHOOSE i \in 1..Len(tr) :
             /\ tr[i].trainId = trainId
             /\ \A j \in 1..(i - 1) : tr[j].trainId # trainId
    ELSE 0

\* findTicket: FALSE stands for TicketNotFoundException
findTicket(bk, bookingId) == bookingId \in DOMAIN bk

chars ==
    <<"A", "B", "C", "D", "E", "F", "G", "H", "I", "J", "K", "L", "M",
      "N", "O", "P", "Q", "R", "S", "T", "U", "V", "W", "X", "Y", "Z",
      "0", "1", "2", "3", "4", "5", "6", "7", "8", "9">>

IdChars == {chars[i] : i \in 1..MaxIdChars}

\* every ID the generator can draw: "BK" and a random character, which
\* stands for the eight random characters of the code
GenIds == {<<"B", "K", c>> : c \in IdChars}

\* generateBookingId without the retry on a ledger key
generateBookingId_noretry(bk) == GenIds

\* generateBookingId: the IDs it can return, a draw that is a ledger key
\* being retried
generateBookingId(bk) == {id \in GenIds : id \notin DOMAIN bk}

NoId == <<>>

\* bookTicket writing the number of the seat after the allocated one into
\* the ticket
bookTicket_nextseat(tr, bk, trainId, passengerName, genId, now) ==
    LET ix == findTrainRef(tr, trainId)
        b  == bookNextAvailableSeat(tr[ix])
        t  == NewTicket(genId, trainId, b.seat + 1, passengerName, now)
    IN  IF passengerName = <<>>
        THEN [trains |-> tr, bookings |-> bk, ret |-> NoId, err |-> "InvalidInput"]
        ELSE IF ix = 0
        THEN [trains |-> tr, bookings |-> bk, ret |-> NoId, err |-> "TrainNotFound"]
        ELSE IF ~b.ok
        THEN [trains |-> tr, bookings |-> bk, ret |-> NoId, err |-> "NoSeatsAvailable"]
        ELSE [trains |-> [tr EXCEPT ![ix] = b.train],
              bookings |-> emplace(bk, genId, t.ticket),
              ret |-> genId, err |-> "None"]

\* bookTicket validating the name only in the Ticket constructor and
\* reporting that failure without releasing the seat
bookTicket_norollback(tr, bk, trainId, passengerName, genId, now) ==
    LET ix == findTrainRef(tr, trainId)
        b  == bookNextAvailableSeat(tr[ix])
        t  == NewTicket(genId, trainId, b.seat, passengerName, now)
    IN  IF ix = 0
        THEN [trains |-> tr, bookings |-> bk, ret |-> NoId, err |-> "TrainNotFound"]
        ELSE IF ~b.ok
        THEN [trains |-> tr, bookings |-> bk, ret |-> NoId, err |-> "NoSeatsAvailable"]
        ELSE IF ~t.ok
        THEN [trains |-> [tr EXCEPT ![ix] = b.train],
              bookings |-> bk, ret |-> NoId, err |-> "TicketCreation"]
        ELSE [trains |-> [tr EXCEPT ![ix] = b.train],
              bookings |-> emplace(bk, genId, t.ticket),
              ret |-> genId, err |-> "None"]

bookTicket(tr, bk, trainId, passengerName, genId, now) ==
    LET ix == findTrainRef(tr, trainId)
        b  == bookNextAvailableSeat(tr[ix])
        t  == NewTicket(genId, trainId, b.seat, passengerName, now)
    IN  IF passengerName = <<>>
        THEN [trains |-> tr, bookings |-> bk, ret |-> NoId, err |-> "InvalidInput"]
        ELSE IF ix = 0
        THEN [trains |-> tr, bookings |-> bk, ret |-> NoId, err |-> "TrainNotFound"]
        ELSE IF ~b.ok
        THEN [trains |-> tr, bookings |-> bk, ret |-> NoId, err |-> "NoSeatsAvailable"]
        ELSE IF ~t.ok
        THEN [trains |-> [tr EXCEPT ![ix] = cancelSeat(b.train, b.seat).train],
              bookings |-> bk, ret |-> NoId, err |-> "TicketCreation"]
        ELSE [trains |-> [tr EXCEPT ![ix] = b.train],
              bookings |-> emplace(bk, genId, t.ticket),
              ret |-> genId, err |-> "None"]

cancelTicket(tr, bk, bookingId) ==
    LET ticket == bk[bookingId]
        ix     == findTrainRef(tr, ticket.trainId)
        c      == cancelSeat(tr[ix], ticket.seatNumber)
    IN  IF ~findTicket(bk, bookingId)
        THEN [trains |-> tr, bookings |-> bk, ret |-> FALSE, err |-> "TicketNotFound"]
        ELSE IF ix = 0
        THEN [trains |-> tr, bookings |-> bk, ret |-> FALSE, err |-> "TrainNotFound"]
        ELSE IF c.thrown
        THEN [trains |-> tr, bookings |-> bk, ret |-> FALSE, err |-> "SeatNotFound"]
        ELSE IF ~c.ret
        THEN [trains |-> tr, bookings |-> bk, ret |-> FALSE, err |-> "Unexpected"]
        ELSE [trains |-> [tr EXCEPT ![ix] = c.train],
              bookings |-> erase(bk, bookingId), ret |-> TRUE, err |-> "None"]

checkTicketStatus(bk, bookingId) == findTicket(bk, bookingId)

\* checkSeatAvailability reporting no error for a train that is not there
checkSeatAvailability_noerror(tr, trainId) ==
    LET ix == findTrainRef(tr, trainId)
    IN  IF ix = 0 THEN [err |-> "None", available |-> 0, total |-> 0]
        ELSE [err |-> "None", available |-> getAvailableSeatsCount(tr[ix]),
              total |-> tr[ix].totalSeats]

\* checkSeatAvailability: the error it reports and the counts it prints
checkSeatAvailability(tr, trainId) ==
    LET ix == findTrainRef(tr, trainId)
    IN  IF ix = 0 THEN [err |-> "TrainNotFound", available |-> 0, total |-> 0]
        ELSE [err |-> "None", available |-> getAvailableSeatsCount(tr[ix]),
              total |-> tr[ix].totalSeats]

(***************************************************************************)
(* CSV persistence.  A file on disk is [exists, lines]; lines[1] is the    *)
(* header, which the loaders skip without looking at it.                   *)
(***************************************************************************)
TrainsHeader ==
    JoinComma(<< <<"trainId">>, <<"trainName">>, <<"totalSeats">>, <<"availableSeats">> >>)

TicketsHeader ==
    JoinComma(<< <<"bookingId">>, <<"trainId">>, <<"seatNumber">>,
                 <<"passengerName">>, <<"bookingTime">> >>)

\* the loop of loadTrainsFromCSV that marks the declared booked seats, from
\* iteration i on; warn = the inconsistent-seat-data warning was printed
RECURSIVE markBookedSeats(_, _, _)
markBookedSeats(train, i, bookedSeats) ==
    IF i < bookedSeats /\ i < train.totalSeats
    THEN With(bookNextAvailableSeat(train),
              LAMBDA b : IF b.ok THEN markBookedSeats(b.train, i + 1, bookedSeats)
                         ELSE [train |-> train, warn |-> TRUE])
    ELSE [train |-> train, warn |-> FALSE]

\* the line is skipped (InvalidInputException caught)
SkippedTrainRow ==
    [ok |-> FALSE, train |-> NewTrain(0, <<>>, 0).train, warn |-> FALSE]

\* trainOfRow without the marking of the declared booked seats
trainOfRow_nomark(trainId, trainName, totalSeats, availableSeats) ==
    With(NewTrain(trainId, trainName, totalSeats),
         LAMBDA t :
            IF ~t.ok THEN SkippedTrainRow
            ELSE [ok |-> TRUE, train |-> t.train, warn |-> FALSE])

\* the train made of the parsed fields, if the constructor accepts them
trainOfRow(trainId, trainName, totalSeats, availableSeats) ==
    With(NewTrain(trainId, trainName, totalSeats),
         LAMBDA t :
            IF ~t.ok THEN SkippedTrainRow
            ELSE With(markBookedSeats(t.train, 0, totalSeats - availableSeats),
                      LAMBDA m : [ok |-> TRUE, train |-> m.train, warn |-> m.warn]))

\* the four fields of a line, f.tokens being what std::getline read: a field
\* that is missing or a number that std::stoi rejects skips the line
trainOfFields(f) ==
    IF Len(f.tokens) < 4 THEN SkippedTrainRow
    ELSE IF ~Stoi(f.tokens[1]).ok \/ ~Stoi(f.tokens[3]).ok \/ ~Stoi(f.tokens[4]).ok
    THEN SkippedTrainRow
    ELSE trainOfRow(Stoi(f.tokens[1]).val, f.tokens[2],
                    Stoi(f.tokens[3]).val, Stoi(f.tokens[4]).val)

\* one pass of the while loop of loadTrainsFromCSV: ok = FALSE when the line
\* is skipped, else the train pushed back
loadTrainRow(line) == With(ReadFields(line, 4, <<>>), trainOfFields)

RECURSIVE loadTrainRows(_, _)
loadTrainRows(tr, lines) ==
    IF lines = <<>> THEN tr
    ELSE With(loadTrainRow(Head(lines)),
              LAMBDA r : loadTrainRows(IF r.ok THEN Append(tr, r.train) ELSE tr,
                                       Tail(lines)))

\* loadTrainsFromCSV clearing the registry before the file is opened
loadTrainsFromCSV_clearfirst(tr, file) ==
    IF ~file.exists THEN [opened |-> FALSE, trains |-> <<>>]
    ELSE [opened |-> TRUE,
          trains |-> loadTrainRows(<<>>, IF file.lines = <<>> THEN <<>>
                                         ELSE Tail(file.lines))]

\* opened = FALSE stands for FileIOException, thrown before trains.clear()
loadTrainsFromCSV(tr, file) ==
    IF ~file.exists THEN [opened |-> FALSE, trains |-> tr]
    ELSE [opened |-> TRUE,
          trains |-> loadTrainRows(<<>>, IF file.lines = <<>> THEN <<>>
                                         ELSE Tail(file.lines))]

saveTrainsToCSV(tr) ==
    <<TrainsHeader>> \o
    [i \in 1..Len(tr) |->
        JoinComma(<<IntToString(tr[i].trainId), tr[i].trainName,
                    IntToString(tr[i].totalSeats),
                    IntToString(getAvailableSeatsCount(tr[i]))>>)]

\* the part of a pass of the while loop of loadTicketsFromCSV that follows
\* the parsing: the train is looked up, the seat booked, the ticket made and
\* put into the ledger
ticketOfRow(tr, bk, bookingId, trainId, seatNumber, passengerName, now) ==
    LET ix == findTrainRef(tr, trainId)
        b  == bookSpecificSeat(tr[ix], seatNumber)
        t  == NewTicket(bookingId, trainId, seatNumber, passengerName, now)
    IN  IF ix = 0 THEN [trains |-> tr, bookings |-> bk, status |-> "trainNotFound"]
        ELSE IF b.thrown
        THEN [trains |-> tr, bookings |-> bk, status |-> "seatNotFound"]
        ELSE IF ~b.ret
        THEN [trains |-> tr, bookings |-> bk, status |-> "alreadyBooked"]
        ELSE IF ~t.ok
        THEN [trains |-> [tr EXCEPT ![ix] = cancelSeat(b.train, seatNumber).train],
              bookings |-> bk, status |-> "ticketCreation"]
        ELSE [trains |-> [tr EXCEPT ![ix] = b.train],
              bookings |-> emplace(bk, bookingId, t.ticket),
              status |-> "loaded"]

\* the fields of a ticket line: four read by std::getline up to a comma, the
\* rest of the line being the booking time, which is read and not used
ticketOfFields(tr, bk, f, now) ==
    IF Len(f.tokens) < 4 THEN [trains |-> tr, bookings |-> bk, status |-> "parse"]
    ELSE IF ~Stoi(f.tokens[2]).ok \/ ~Stoi(f.tokens[3]).ok
    THEN [trains |-> tr, bookings |-> bk, status |-> "parse"]
    ELSE ticketOfRow(tr, bk, f.tokens[1], Stoi(f.tokens[2]).val,
                     Stoi(f.tokens[3]).val, f.tokens[4], now)

\* one pass of the while loop of loadTicketsFromCSV
loadTicketRow(tr, bk, line, now) ==
    With(ReadFields(line, 4, <<>>), LAMBDA f : ticketOfFields(tr, bk, f, now))

RECURSIVE loadTicketRows(_, _, _, _)
loadTicketRows(tr, bk, lines, now) ==
    IF lines = <<>> THEN [trains |-> tr, bookings |-> bk]
    ELSE With(loadTicketRow(tr, bk, Head(lines), now),
              LAMBDA r : loadTicketRows(r.trains, r.bookings, Tail(lines), now))

\* opened = FALSE stands for FileIOException, thrown before bookings.clear()
loadTicketsFromCSV(tr, bk, file, now) ==
    IF ~file.exists THEN [opened |-> FALSE, trains |-> tr, bookings |-> bk]
    ELSE With(loadTicketRows(tr, NoBookings,
                             IF file.lines = <<>> THEN <<>> ELSE Tail(file.lines),
                             now),
              LAMBDA r : [opened |-> TRUE, trains |-> r.trains,
                          bookings |-> r.bookings])

\* the rows are written in the iteration order of the unordered_map, which
\* is any order of the keys
saveTicketsToCSV(bk, order) ==
    <<TicketsHeader>> \o
    [i \in 1..Len(order) |->
        JoinComma(<<bk[order[i]].bookingId, IntToString(bk[order[i]].trainId),
                    IntToString(bk[order[i]].seatNumber),
                    bk[order[i]].passengerName, bk[order[i]].bookingTime>>)]

KeyOrders(bk) ==
    {o \in [1..Cardinality(DOMAIN bk) -> DOMAIN bk] :
        \A i, j \in DOMAIN o : i # j => o[i] # o[j]}

(***************************************************************************)
(* The process: construction, the startup load of main, the operations of  *)
(* the menu, and the save on exit.                                         *)
(***************************************************************************)
DefaultSeats == 100

\* ReservationSystem::ReservationSystem
DefaultTrains ==
    << NewTrain(1001, <<"Express", " ", "Delhi">>, DefaultSeats).train,
       NewTrain(1002, <<"Mumbai", " ", "Local">>, DefaultSeats).train,
       NewTrain(1003, <<"Chennai", " ", "Mail">>, DefaultSeats).train,
       NewTrain(1004, <<"Kolkata", " ", "Express">>, DefaultSeats).train >>

\* time(0) as the Ticket constructor formats it; the clock is read once per
\* process run
TimeString(r) == <<"T">> \o IntToString(r)

N(n) == IntToString(n)

\* data rows an input trains.csv is made of: two trains, one of them with a
\* seat declared booked, a full train, a second train with the ID 1001, and
\* a row with a count that is no number
TrainRowInputs ==
    { JoinComma(<<N(1001), <<"E">>, N(2), N(2)>>),
      JoinComma(<<N(1001), <<"E">>, N(2), N(1)>>),
      JoinComma(<<N(2001), <<"T">>, N(1), N(0)>>),
      JoinComma(<<N(1001), <<"D">>, N(1), N(1)>>),
      JoinComma(<<N(2001), <<"Test">>, N(5), <<"abc">>>>) }

\* data rows an input tickets.csv is made of: tickets for both trains, a
\* second row with the booking ID of the first, a seat number that only the
\* default train 1001 has, and a second row for the seat of the first
TicketRowInputs ==
    { JoinComma(<< <<"B", "K", "A">>, N(1001), N(1), <<"A">>, <<"T", "0">> >>),
      JoinComma(<< <<"B", "K", "A">>, N(1001), N(2), <<"A">>, <<"T", "0">> >>),
      JoinComma(<< <<"X", "9">>, N(2001), N(1), <<"B">>, <<"T", "0">> >>),
      JoinComma(<< <<"B", "K", "B">>, N(1001), N(3), <<"A">>, <<"T", "0">> >>),
      JoinComma(<< <<"B", "K", "B">>, N(1001), N(1), <<"B">>, <<"T", "0">> >>) }

SeqsUpTo(S, n) == UNION {[1..k -> S] : k \in 0..n}

MissingFile == [exists |-> FALSE, lines |-> <<>>]

TrainFileInputs ==
    {MissingFile} \cup
    {[exists |-> TRUE, lines |-> <<TrainsHeader>> \o rows] :
        rows \in SeqsUpTo(TrainRowInputs, MaxTrainRows)}

TicketFileInputs ==
    {MissingFile} \cup
    {[exists |-> TRUE, lines |-> <<TicketsHeader>> \o rows] :
        rows \in SeqsUpTo(TicketRowInputs, MaxTicketRows)}

TrainIdInputs == {1001, 2001, 3001}

PassengerInputs == {<<>>, <<"A">>, <<"B", ",", "C">>}

BookingIdInputs == GenIds \cup {<<"X", "9">>}

\* a file the exiting process could not open for writing; it is taken to be
\* missing at the next start
Unknown == [known |-> FALSE, lines |-> <<>>]

Result(op, ret, ok, err) == [op |-> op, ret |-> ret, ok |-> ok, err |-> err]

\* no file is being read: the loads of the startup are taken as one step
NoLoad == [file |-> MissingFile, rest |-> <<>>]

\* bookTicket is not between its seat allocation and its emplace: a call of
\* bookTicket is taken as one step
NoCall == [at |-> "none"]

\* main, lines 648-660: both loads, each failure to open a file caught
StartupLoad(tr, bk, trainFile, ticketFile, now) ==
    With(loadTrainsFromCSV(tr, trainFile),
         LAMBDA lt :
            With(loadTicketsFromCSV(lt.trains, bk, ticketFile, now),
                 LAMBDA lk :
                    [trains |-> lk.trains, bookings |-> lk.bookings,
                     err |-> IF ~lt.opened /\ ~lk.opened THEN "FileIOBoth"
                             ELSE IF ~lt.opened THEN "FileIOTrains"
                             ELSE IF ~lk.opened THEN "FileIOTickets"
                             ELSE "None"]))

Init ==
    /\ trains = DefaultTrains
    /\ bookings = NoBookings
    /\ pc = "start"
    /\ run = 1
    /\ trainsCsv = Unknown
    /\ ticketsCsv = Unknown
    /\ last = Result("construct", NoId, TRUE, "None")
    /\ load = NoLoad
    /\ call = NoCall

Startup ==
    /\ pc = "start"
    /\ \E tf \in TrainFileInputs, kf \in TicketFileInputs :
         \E r \in {StartupLoad(trains, bookings, tf, kf, TimeString(run))} :
             /\ trains' = r.trains
             /\ bookings' = r.bookings
             /\ last' = Result("startup", NoId, TRUE, r.err)
    /\ pc' = "loop"
    /\ UNCHANGED <<load, call, run, trainsCsv, ticketsCsv>>

\* the head of the loop of main: the menu is printed and a choice awaited;
\* the outcome of the operation before has been reported by then
DisplayMainMenu ==
    /\ pc = "loop"
    /\ pc' = "menu"
    /\ last' = Result("displayMainMenu", NoId, TRUE, "None")
    /\ UNCHANGED <<load, call, trains, bookings, run, trainsCsv, ticketsCsv>>

DisplayAllTrains ==
    /\ pc = "menu"
    /\ last' = Result("displayAllTrains", NoId, TRUE, "None")
    /\ pc' = "loop"
    /\ UNCHANGED <<load, call, trains, bookings, run, trainsCsv, ticketsCsv>>

CheckSeatAvailability(trainId) ==
    /\ pc = "menu"
    /\ LET r == checkSeatAvailability(trains, trainId)
       IN  last' = Result("checkSeatAvailability", NoId, r.err = "None", r.err)
    /\ pc' = "loop"
    /\ UNCHANGED <<load, call, trains, bookings, run, trainsCsv, ticketsCsv>>

\* a call of generateBookingId returns only when some ID is not a ledger key
BookTicket(trainId, passengerName) ==
    /\ pc = "menu"
    /\ Cardinality(DOMAIN bookings) < MaxTickets
    /\ \E genId \in generateBookingId(bookings) :
         \E r \in {bookTicket(trains, bookings, trainId, passengerName, genId,
                              TimeString(run))} :
             /\ trains' = r.trains
             /\ bookings' = r.bookings
             /\ last' = Result("bookTicket", r.ret, r.ret # NoId, r.err)
    /\ pc' = "loop"
    /\ UNCHANGED <<load, call, run, trainsCsv, ticketsCsv>>

CancelTicket(bookingId) ==
    /\ pc = "menu"
    /\ \E r \in {cancelTicket(trains, bookings, bookingId)} :
           /\ trains' = r.trains
           /\ bookings' = r.bookings
           /\ last' = Result("cancelTicket", NoId, r.ret, r.err)
    /\ pc' = "loop"
    /\ UNCHANGED <<load, call, run, trainsCsv, ticketsCsv>>

CheckTicketStatus(bookingId) ==
    /\ pc = "menu"
    /\ LET ok == checkTicketStatus(bookings, bookingId)
       IN  last' = Result("checkTicketStatus", NoId, ok,
                          IF ok THEN "None" ELSE "TicketNotFound")
    /\ pc' = "loop"
    /\ UNCHANGED <<load, call, trains, bookings, run, trainsCsv, ticketsCsv>>

\* menu choice 0 with the save of the tickets left out when the save of the
\* trains has failed
Exit_skipTickets ==
    /\ pc = "menu"
    /\ \E okTrains, okTickets \in BOOLEAN, order \in KeyOrders(bookings) :
         /\ trainsCsv' = IF okTrains
                         THEN [known |-> TRUE, lines |-> saveTrainsToCSV(trains)]
                         ELSE trainsCsv
         /\ ticketsCsv' = IF okTrains /\ okTickets
                          THEN [known |-> TRUE,
                                lines |-> saveTicketsToCSV(bookings, order)]
                          ELSE ticketsCsv
         /\ last' = Result("exit", NoId, okTrains /\ okTickets,
                           IF ~okTrains /\ ~okTickets THEN "FileIOBoth"
                           ELSE IF ~okTrains THEN "FileIOTrains"
                           ELSE IF ~okTickets THEN "FileIOTickets"
                           ELSE "None")
    /\ pc' = "exited"
    /\ UNCHANGED <<load, call, trains, bookings, run>>

\* menu choice 0: both saves are tried, a FileIOException of either (the
\* file cannot be opened for writing) is caught, and the loop ends
Exit ==
    /\ pc = "menu"
    /\ \E okTrains, okTickets \in BOOLEAN, order \in KeyOrders(bookings) :
         /\ trainsCsv' = IF okTrains
                         THEN [known |-> TRUE, lines |-> saveTrainsToCSV(trains)]
                         ELSE trainsCsv
         /\ ticketsCsv' = IF okTickets
                          THEN [known |-> TRUE,
                                lines |-> saveTicketsToCSV(bookings, order)]
                          ELSE ticketsCsv
         /\ last' = Result("exit", NoId, okTrains /\ okTickets,
                           IF ~okTrains /\ ~okTickets THEN "FileIOBoth"
                           ELSE IF ~okTrains THEN "FileIOTrains"
                           ELSE IF ~okTickets THEN "FileIOTickets"
                           ELSE "None")
    /\ pc' = "exited"
    /\ UNCHANGED <<load, call, trains, bookings, run>>

\* the program is started again: construction and the startup load, which
\* reads the files the previous run left
Restart ==
    /\ pc = "exited"
    /\ run < MaxRuns
    /\ \E tf \in IF trainsCsv.known
                 THEN {[exists |-> TRUE, lines |-> trainsCsv.lines]}
                 ELSE {MissingFile},
          kf \in IF ticketsCsv.known
                 THEN {[exists |-> TRUE, lines |-> ticketsCsv.lines]}
                 ELSE {MissingFile} :
         \E r \in {StartupLoad(DefaultTrains, NoBookings, tf, kf, TimeString(run + 1))} :
             /\ trains' = r.trains
             /\ bookings' = r.bookings
             /\ last' = Result("startup", NoId, TRUE, r.err)
    /\ pc' = "loop"
    /\ run' = run + 1
    /\ trainsCsv' = Unknown
    /\ ticketsCsv' = Unknown
    /\ UNCHANGED <<load, call>>

Next ==
    \/ Startup
    \/ DisplayMainMenu
    \/ DisplayAllTrains
    \/ \E trainId \in TrainIdInputs : CheckSeatAvailability(trainId)
    \/ \E trainId \in TrainIdInputs, passengerName \in PassengerInputs :
         BookTicket(trainId, passengerName)
    \/ \E bookingId \in BookingIdInputs : CancelTicket(bookingId)
    \/ \E bookingId \in BookingIdInputs : CheckTicketStatus(bookingId)
    \/ Exit
    \/ Restart

Spec == Init /\ [][Next]_vars

TypeOK ==
    /\ pc \in {"start", "loop", "menu", "exited"}
    /\ run \in 1..MaxRuns
    /\ \A i \in 1..Len(trains) :
         /\ trains[i].seatAvailability.size = trains[i].totalSeats
         /\ trains[i].seatAvailability.off \subseteq 1..trains[i].totalSeats

(***************************************************************************)
(* loadTrainsFromCSV, one pass of its while loop at a time.  load.file is  *)
(* the file it is called with and load.rest the lines not read yet.        *)
(***************************************************************************)
\* data rows of the files loadTrainsFromCSV is called with: seats declared
\* booked or not, more seats declared booked than the train has, more
\* declared available than it has, counts and IDs that are no numbers or
\* numbers followed by other characters, a seat count the constructor
\* rejects, and missing fields
LoadTrainRowInputs ==
    { JoinComma(<<N(1001), <<"E">>, N(2), N(2)>>),
      JoinComma(<<N(1001), <<"E">>, N(2), N(1)>>),
      JoinComma(<<N(2001), <<"T">>, N(1), N(0)>>),
      JoinComma(<<N(2001), <<"T">>, N(2), N(-1)>>),
      JoinComma(<<N(2001), <<"T">>, N(2), N(3)>>),
      JoinComma(<<N(2001), <<"Test">>, N(5), <<"abc">>>>),
      JoinComma(<<N(2001), <<"T">>, N(5), <<"4", "x">>>>),
      JoinComma(<< <<"x">>, <<"T">>, N(1), N(1)>>),
      JoinComma(<<N(2001), <<"T">>, N(0), N(0)>>),
      JoinComma(<<N(2001), <<"T">>>>) }

\* no file, a file without any line, and a header followed by data rows
LoadTrainFileInputs ==
    {MissingFile, [exists |-> TRUE, lines |-> <<>>]} \cup
    {[exists |-> TRUE, lines |-> <<TrainsHeader>> \o rows] :
        rows \in SeqsUpTo(LoadTrainRowInputs, MaxTrainRows)}

TrainLoadInit ==
    /\ trains = DefaultTrains
    /\ bookings = NoBookings
    /\ pc = "open"
    /\ run = 1
    /\ trainsCsv = Unknown
    /\ ticketsCsv = Unknown
    /\ last = Result("construct", NoId, TRUE, "None")
    /\ load \in {[file |-> f, rest |-> <<>>] : f \in LoadTrainFileInputs}
    /\ call = NoCall

\* lines 328-338: the file is opened, the registry cleared and the header
\* line skipped; a file that cannot be opened ends the call with a
\* FileIOException
OpenTrains ==
    /\ pc = "open"
    /\ IF ~load.file.exists
       THEN /\ pc' = "thrown"
            /\ last' = Result("loadTrainsFromCSV", NoId, FALSE, "FileIO")
            /\ UNCHANGED <<trains, load>>
       ELSE /\ pc' = "rows"
            /\ trains' = <<>>
            /\ load' = [load EXCEPT !.rest = IF load.file.lines = <<>> THEN <<>>
                                             ELSE Tail(load.file.lines)]
            /\ last' = Result("open", NoId, TRUE, "None")
    /\ UNCHANGED <<bookings, run, call, trainsCsv, ticketsCsv>>

\* lines 340-399: one pass of the while loop
ReadTrainRow ==
    /\ pc = "rows"
    /\ load.rest # <<>>
    /\ \E r \in {loadTrainRow(Head(load.rest))} :
         /\ trains' = IF r.ok THEN Append(trains, r.train) ELSE trains
         /\ last' = Result("loadTrainRow", NoId, r.ok,
                           IF ~r.ok THEN "InvalidInput"
                           ELSE IF r.warn THEN "InconsistentSeatData"
                           ELSE "None")
    /\ load' = [load EXCEPT !.rest = Tail(load.rest)]
    /\ UNCHANGED <<bookings, pc, run, call, trainsCsv, ticketsCsv>>

\* lines 340 and 401: std::getline finds no further line and the call returns
EndTrains ==
    /\ pc = "rows"
    /\ load.rest = <<>>
    /\ pc' = "loaded"
    /\ last' = Result("loadTrainsFromCSV", NoId, TRUE, "None")
    /\ UNCHANGED <<trains, bookings, run, call, trainsCsv, ticketsCsv, load>>

TrainLoadNext ==
    \/ OpenTrains
    \/ ReadTrainRow
    \/ EndTrains

TrainLoadSpec == TrainLoadInit /\ [][TrainLoadNext]_vars

\* the passes taken one by one end in what loadTrainsFromCSV gives as a whole
TrainLoadAgrees ==
    pc \in {"loaded", "thrown"} =>
        /\ loadTrainsFromCSV(DefaultTrains, load.file).opened = (pc = "loaded")
        /\ loadTrainsFromCSV(DefaultTrains, load.file).trains = trains

(***************************************************************************)
(* loadTicketsFromCSV, one pass of its while loop at a time, called as     *)
(* main calls it: after the load of the trains, on an empty ledger.        *)
(***************************************************************************)
\* data rows of the files loadTicketsFromCSV is called with: two rows with
\* one booking ID, a seat that only a train of 100 seats has, seat 0, a
\* train that is not there, a seat that is no number, an empty passenger
\* name, an empty booking ID, and a row that ends after the seat
LoadTicketRowInputs ==
    { JoinComma(<< <<"B", "K", "A">>, N(1001), N(1), <<"A">>, <<"T", "0">> >>),
      JoinComma(<< <<"B", "K", "A">>, N(1001), N(2), <<"A">>, <<"T", "0">> >>),
      JoinComma(<< <<"B", "K", "B">>, N(1001), N(3), <<"B">>, <<"T", "0">> >>),
      JoinComma(<< <<"B", "K", "B">>, N(1001), N(0), <<"B">>, <<"T", "0">> >>),
      JoinComma(<< <<"X", "9">>, N(3001), N(1), <<"B">>, <<"T", "0">> >>),
      JoinComma(<< <<"B", "K", "B">>, N(1001), <<"x">>, <<"B">>, <<"T", "0">> >>),
      JoinComma(<< <<"B", "K", "B">>, N(1001), N(1), <<>>, <<"T", "0">> >>),
      JoinComma(<< <<>>, N(1001), N(1), <<"B">>, <<"T", "0">> >>),
      JoinComma(<< <<"B", "K", "B">>, N(1001), N(1)>>) }

LoadTicketFileInputs ==
    {MissingFile, [exists |-> TRUE, lines |-> <<>>]} \cup
    {[exists |-> TRUE, lines |-> <<TicketsHeader>> \o rows] :
        rows \in SeqsUpTo(LoadTicketRowInputs, MaxTicketRows)}

\* the registry the load of the trains has left: the default trains (no
\* trains.csv), a train 1001 of two seats with seat 1 declared booked, and
\* two trains with the ID 1001
LoadRegistryInputs ==
    { loadTrainsFromCSV(DefaultTrains, f).trains :
        f \in { MissingFile,
                [exists |-> TRUE,
                 lines |-> <<TrainsHeader,
                             JoinComma(<<N(1001), <<"E">>, N(2), N(1)>>)>>],
                [exists |-> TRUE,
                 lines |-> <<TrainsHeader,
                             JoinComma(<<N(1001), <<"D">>, N(1), N(1)>>),
                             JoinComma(<<N(1001), <<"E">>, N(2), N(2)>>)>>] } }

TicketLoadInit ==
    /\ trains \in LoadRegistryInputs
    /\ bookings = NoBookings
    /\ pc = "open"
    /\ run = 1
    /\ trainsCsv = Unknown
    /\ ticketsCsv = Unknown
    /\ last = Result("construct", NoId, TRUE, "None")
    /\ load \in {[file |-> f, rest |-> <<>>] : f \in LoadTicketFileInputs}
    /\ call = NoCall

\* lines 429-439: the file is opened, the ledger cleared and the header line
\* skipped; a file that cannot be opened ends the call with a
\* FileIOException
OpenTickets ==
    /\ pc = "open"
    /\ IF ~load.file.exists
       THEN /\ pc' = "thrown"
            /\ last' = Result("loadTicketsFromCSV", NoId, FALSE, "FileIO")
            /\ UNCHANGED <<bookings, load>>
       ELSE /\ pc' = "rows"
            /\ bookings' = NoBookings
            /\ load' = [load EXCEPT !.rest = IF load.file.lines = <<>> THEN <<>>
                                             ELSE Tail(load.file.lines)]
            /\ last' = Result("open", NoId, TRUE, "None")
    /\ UNCHANGED <<trains, run, call, trainsCsv, ticketsCsv>>

\* lines 444-521: one pass of the while loop; the outcome is the message
\* the pass prints, "loaded" when it counts the ticket as loaded
ReadTicketRow ==
    /\ pc = "rows"
    /\ load.rest # <<>>
    /\ \E r \in {loadTicketRow(trains, bookings, Head(load.rest), TimeString(run))} :
         /\ trains' = r.trains
         /\ bookings' = r.bookings
         /\ last' = Result("loadTicketRow", NoId, r.status = "loaded", r.status)
    /\ load' = [load EXCEPT !.rest = Tail(load.rest)]
    /\ UNCHANGED <<pc, run, call, trainsCsv, ticketsCsv>>

\* lines 444 and 523: std::getline finds no further line and the call returns
EndTickets ==
    /\ pc = "rows"
    /\ load.rest = <<>>
    /\ pc' = "loaded"
    /\ last' = Result("loadTicketsFromCSV", NoId, TRUE, "None")
    /\ UNCHANGED <<trains, bookings, run, call, trainsCsv, ticketsCsv, load>>

TicketLoadNext ==
    \/ OpenTickets
    \/ ReadTicketRow
    \/ EndTickets

TicketLoadSpec == TicketLoadInit /\ [][TicketLoadNext]_vars

\* the passes taken one by one end in a ledger that loadTicketsFromCSV gives
\* as a whole on some registry the load can start from
TicketLoadAgrees ==
    pc \in {"loaded", "thrown"} =>
        \E tr \in LoadRegistryInputs :
            LET r == loadTicketsFromCSV(tr, NoBookings, load.file, TimeString(run))
            IN  /\ r.opened = (pc = "loaded")
                /\ r.trains = trains
                /\ r.bookings = bookings

(***************************************************************************)
(* BookingSpec: the menu loop of a run that started without files, with    *)
(* bookTicket taken in steps: the seat allocation, each draw of            *)
(* generateBookingId, its test against the ledger, and the return that     *)
(* lets bookTicket insert the ticket.  call holds the locals of bookTicket *)
(* while generateBookingId runs.                                           *)
(***************************************************************************)
BookTrainIdInputs == {1001, 1002, 2001}

BookPassengerInputs == {<<>>, <<"A">>}

BookingInit ==
    /\ trains = DefaultTrains
    /\ bookings = NoBookings
    /\ pc = "loop"
    /\ run = 1
    /\ trainsCsv = Unknown
    /\ ticketsCsv = Unknown
    /\ last = Result("construct", NoId, TRUE, "None")
    /\ load = NoLoad
    /\ call = NoCall

\* bookTicket, lines 247-257 and 271-279: the name is tested, the train
\* looked up and its lowest available seat taken; then generateBookingId is
\* called
BeginBookTicket(trainId, passengerName) ==
    /\ pc = "menu"
    /\ \E ix \in {findTrainRef(trains, trainId)} :
         \E b \in {bookNextAvailableSeat(trains[IF ix = 0 THEN 1 ELSE ix])} :
            IF passengerName = <<>> \/ ix = 0 \/ ~b.ok
            THEN /\ last' = Result("bookTicket", NoId, FALSE,
                                   IF passengerName = <<>> THEN "InvalidInput"
                                   ELSE IF ix = 0 THEN "TrainNotFound"
                                   ELSE "NoSeatsAvailable")
                 /\ pc' = "loop"
                 /\ UNCHANGED <<trains, call>>
            ELSE /\ trains' = [trains EXCEPT ![ix] = b.train]
                 /\ call' = [at |-> "draw", trainId |-> trainId,
                             seatNumber |-> b.seat,
                             passengerName |-> passengerName, id |-> NoId]
                 /\ pc' = "bookTicket"
                 /\ last' = last
    /\ UNCHANGED <<bookings, run, trainsCsv, ticketsCsv, load>>

\* generateBookingId, lines 179-185, with every character drawn the first
\* of chars
DrawBookingId_first(id) ==
    /\ call.at = "draw"
    /\ id \in GenIds
    /\ call' = [call EXCEPT !.at = "test", !.id = <<"B", "K", chars[1]>>]
    /\ UNCHANGED <<trains, bookings, pc, run, trainsCsv, ticketsCsv, last, load>>

\* generateBookingId, lines 179-185: the candidate is "BK" and random
\* characters of chars
DrawBookingId(id) ==
    /\ call.at = "draw"
    /\ id \in GenIds
    /\ call' = [call EXCEPT !.at = "test", !.id = id]
    /\ UNCHANGED <<trains, bookings, pc, run, trainsCsv, ticketsCsv, last, load>>

\* generateBookingId, lines 188-190: the candidate is a ledger key, and the
\* function calls itself
RetryBookingId ==
    /\ call.at = "test"
    /\ call.id \in DOMAIN bookings
    /\ call' = [call EXCEPT !.at = "draw", !.id = NoId]
    /\ UNCHANGED <<trains, bookings, pc, run, trainsCsv, ticketsCsv, last, load>>

\* generateBookingId, lines 188 and 192: the candidate is not a ledger key
\* and is returned; bookTicket, lines 258-270: the ticket is made and
\* inserted, the seat being given back when the ticket cannot be made
ReturnBookingId ==
    /\ call.at = "test"
    /\ call.id \notin DOMAIN bookings
    /\ \E ix \in {findTrainRef(trains, call.trainId)} :
         \E t \in {NewTicket(call.id, call.trainId, call.seatNumber,
                             call.passengerName, TimeString(run))} :
            IF t.ok
            THEN /\ bookings' = emplace(bookings, call.id, t.ticket)
                 /\ last' = Result("bookTicket", call.id, TRUE, "None")
                 /\ UNCHANGED trains
            ELSE /\ trains' = [trains EXCEPT
                                 ![ix] = cancelSeat(trains[ix], call.seatNumber).train]
                 /\ last' = Result("bookTicket", NoId, FALSE, "TicketCreation")
                 /\ UNCHANGED bookings
    /\ call' = NoCall
    /\ pc' = "loop"
    /\ UNCHANGED <<run, trainsCsv, ticketsCsv, load>>

BookingNext ==
    \/ DisplayMainMenu
    \/ \E t \in BookTrainIdInputs : \E n \in BookPassengerInputs :
           BeginBookTicket(t, n)
    \/ \E id \in GenIds : DrawBookingId(id)
    \/ RetryBookingId
    \/ ReturnBookingId
    \/ \E b \in GenIds : CancelTicket(b)

\* the process keeps running, and the random draws are fair: an ID of the
\* ID space is drawn again and again when draws are made again and again
BookingFairness ==
    /\ WF_vars(RetryBookingId)
    /\ WF_vars(ReturnBookingId)
    /\ \A id \in GenIds : SF_vars(DrawBookingId(id))

BookingSpec == BookingInit /\ [][BookingNext]_vars /\ BookingFairness

(***************************************************************************)
(* Properties.                                                             *)
(***************************************************************************)
TakenSeats(train) ==
    {i \in 1..train.totalSeats : ~At(train.seatAvailability, i)}

AvailableSeats(train) ==
    {i \in 1..train.totalSeats : At(train.seatAvailability, i)}

\* the step is a call bookTicket(trainId, passengerName)
IsBook(trainId, passengerName) ==
    last'.op = "bookTicket" /\ BookTicket(trainId, passengerName)

\* the step is a call cancelTicket(bookingId)
IsCancel(bookingId) ==
    last'.op = "cancelTicket" /\ CancelTicket(bookingId)

\* trains t and u differ in nothing but the availability of seat s
SameButSeat(t, u, s) ==
    /\ t.trainId = u.trainId
    /\ t.trainName = u.trainName
    /\ t.totalSeats = u.totalSeats
    /\ t.seatAvailability.size = u.seatAvailability.size
    /\ \A i \in 1..t.seatAvailability.size :
         i # s => At(t.seatAvailability, i) = At(u.seatAvailability, i)

\* registries tr and ur differ in nothing but seat s of the train at ix
SameButTrainSeat(tr, ur, ix, s) ==
    /\ Len(tr) = Len(ur)
    /\ \A i \in 1..Len(tr) : i # ix => tr[i] = ur[i]
    /\ SameButSeat(tr[ix], ur[ix], s)

\* C1: every ticket of the ledger names a train of the registry, its seat
\* number is one of that train's seats, and the seat is taken on the train
\* the lookup by ID finds.
C1_TicketSeatTaken ==
    \A b \in DOMAIN bookings :
        LET ix == findTrainRef(trains, bookings[b].trainId)
        IN  /\ ix # 0
            /\ bookings[b].seatNumber \in 1..trains[ix].totalSeats
            /\ ~At(trains[ix].seatAvailability, bookings[b].seatNumber)

\* a ticket is still held after another one was cancelled
C1_Witness ==
    /\ last.op = "cancelTicket"
    /\ last.ok
    /\ bookings # NoBookings

TrainPairs(tr) ==
    {<<tr[i].trainId, getAvailableSeatsCount(tr[i])>> : i \in 1..Len(tr)}

TicketTuples(bk) ==
    {<<bk[b].bookingId, bk[b].trainId, bk[b].seatNumber, bk[b].passengerName>> :
        b \in DOMAIN bk}

\* C2: when both files were saved on exit, the load of the next start gives
\* the same (trainId, availableSeats) pairs and the same (bookingId, trainId,
\* seatNumber, passengerName) tuples as the state that was saved.
C2_SaveLoadRoundTrip ==
    [][(pc = "exited" /\ pc' = "loop" /\ trainsCsv.known /\ ticketsCsv.known)
        => /\ TrainPairs(trains') = TrainPairs(trains)
           /\ TicketTuples(bookings') = TicketTuples(bookings)]_vars

\* C3: a successful bookTicket(trainId, passengerName) takes exactly one
\* seat, an available one of the train the ID resolves to, and adds exactly
\* one ticket, for that train, that seat and that name; nothing else changes.
C3_BookEffect ==
    [][\A trainId \in TrainIdInputs, passengerName \in PassengerInputs :
        (IsBook(trainId, passengerName) /\ last'.ok) =>
            LET ix == findTrainRef(trains, trainId)
                b  == last'.ret
            IN  /\ ix # 0
                /\ b \notin DOMAIN bookings
                /\ DOMAIN bookings' = (DOMAIN bookings) \cup {b}
                /\ \A k \in DOMAIN bookings : bookings'[k] = bookings[k]
                /\ bookings'[b].bookingId = b
                /\ bookings'[b].trainId = trainId
                /\ bookings'[b].passengerName = passengerName
                /\ bookings'[b].seatNumber \in AvailableSeats(trains[ix])
                /\ ~At(trains'[ix].seatAvailability, bookings'[b].seatNumber)
                /\ SameButTrainSeat(trains, trains', ix, bookings'[b].seatNumber)]_vars

\* a booking succeeded while another ticket and another train were there
C3_Witness ==
    /\ last.op = "bookTicket"
    /\ last.ok
    /\ Cardinality(DOMAIN bookings) >= 2
    /\ Len(trains) >= 2

\* C4 as stated: bookTicket on a train without an available seat returns the
\* empty booking ID, reports NoSeatsAvailable and changes nothing.
C4_Original ==
    [][\A trainId \in TrainIdInputs, passengerName \in PassengerInputs :
        (/\ IsBook(trainId, passengerName)
         /\ findTrainRef(trains, trainId) # 0
         /\ getAvailableSeatsCount(trains[findTrainRef(trains, trainId)]) = 0)
        => /\ last'.ret = NoId
           /\ last'.err = "NoSeatsAvailable"
           /\ trains' = trains
           /\ bookings' = bookings]_vars

\* C4: bookTicket on a train without an available seat returns the empty
\* booking ID and changes nothing; it reports NoSeatsAvailable when the
\* passenger name is not empty and InvalidInput when it is.
C4_FullTrainFails ==
    [][\A trainId \in TrainIdInputs, passengerName \in PassengerInputs :
        (/\ IsBook(trainId, passengerName)
         /\ findTrainRef(trains, trainId) # 0
         /\ getAvailableSeatsCount(trains[findTrainRef(trains, trainId)]) = 0)
        => /\ last'.ret = NoId
           /\ ~last'.ok
           /\ last'.err = IF passengerName = <<>> THEN "InvalidInput"
                          ELSE "NoSeatsAvailable"
           /\ trains' = trains
           /\ bookings' = bookings]_vars

\* a booking was refused for lack of seats on a train with every seat taken
C4_Witness ==
    /\ last.op = "bookTicket"
    /\ last.err = "NoSeatsAvailable"
    /\ \E i \in 1..Len(trains) :
         /\ findTrainRef(trains, trains[i].trainId) = i
         /\ getAvailableSeatsCount(trains[i]) = 0

\* releasing the seat bookTicket has just allocated gives the train back as
\* it was
RollbackRestores ==
    \A i \in 1..Len(trains) :
        LET b == bookNextAvailableSeat(trains[i])
        IN  b.ok => /\ cancelSeat(b.train, b.seat).ret
                    /\ cancelSeat(b.train, b.seat).train = trains[i]

\* C5: a bookTicket that fails (empty name, unknown train, no seat, ticket
\* construction) returns the empty booking ID and leaves every seat and the
\* ledger as they were; the release of an allocated seat undoes the
\* allocation.
C5_BookFailureNoEffect ==
    [][/\ \A trainId \in TrainIdInputs, passengerName \in PassengerInputs :
            (IsBook(trainId, passengerName) /\ ~last'.ok)
            => /\ last'.ret = NoId
               /\ last'.err \in {"InvalidInput", "TrainNotFound",
                                 "NoSeatsAvailable", "TicketCreation"}
               /\ trains' = trains
               /\ bookings' = bookings
       /\ \A trainId \in TrainIdInputs :
            (IsBook(trainId, <<>>) \/ (IsBook(trainId, <<"A">>) /\
                                       findTrainRef(trains, trainId) = 0))
            => ~last'.ok
       /\ RollbackRestores]_vars

\* a booking with an empty name was refused while the train had free seats
\* and the ledger held a ticket
C5_Witness ==
    /\ last.op = "bookTicket"
    /\ last.err = "InvalidInput"
    /\ bookings # NoBookings
    /\ \E i \in 1..Len(trains) : AvailableSeats(trains[i]) # {}

\* seat numbers handed out by n bookings in a row on the train with the ID,
\* with the registry and the ledger they leave
RECURSIVE BookInARow(_, _, _, _, _)
BookInARow(tr, bk, trainId, n, seats) ==
    IF n = 0 THEN [trains |-> tr, bookings |-> bk, seats |-> seats]
    ELSE LET r == bookTicket(tr, bk, trainId, <<"A">>,
                             CHOOSE id \in generateBookingId(bk) : TRUE,
                             TimeString(run))
         IN  BookInARow(r.trains, r.bookings, trainId, n - 1,
                        Append(seats, IF r.ret = NoId THEN 0
                                      ELSE r.bookings[r.ret].seatNumber))

\* on a train with all its N seats available, N bookings in a row get the
\* seats 1..N in order and the next one fails, the train staying full
FillInOrder ==
    \A trainId \in TrainIdInputs :
        LET ix == findTrainRef(trains, trainId)
            n  == trains[ix].totalSeats
            r  == BookInARow(trains, bookings, trainId, n, <<>>)
            f  == bookTicket(r.trains, r.bookings, trainId, <<"A">>,
                             <<"B", "K">>, TimeString(run))
        IN  (/\ ix # 0
             /\ TakenSeats(trains[ix]) = {}
             /\ n <= Cardinality(generateBookingId(bookings)))
            => /\ r.seats = [i \in 1..n |-> i]
               /\ getAvailableSeatsCount(r.trains[ix]) = 0
               /\ f.ret = NoId
               /\ f.err = "NoSeatsAvailable"
               /\ getAvailableSeatsCount(f.trains[ix]) = 0

\* C6: a successful bookTicket hands out the lowest available seat of the
\* train, and filling an empty train gives the seats 1..N in order, after
\* which booking fails.
C6_LowestSeatFirst ==
    [][/\ \A trainId \in TrainIdInputs, passengerName \in PassengerInputs :
            (IsBook(trainId, passengerName) /\ last'.ok)
            => LET ix == findTrainRef(trains, trainId)
                   s  == bookings'[last'.ret].seatNumber
               IN  /\ s \in AvailableSeats(trains[ix])
                   /\ \A j \in AvailableSeats(trains[ix]) : s <= j
       /\ FillInOrder]_vars

\* a booking got seat 1 again while seat 2 of the same train was taken,
\* which takes a cancellation of the ticket for seat 1
C6_Witness ==
    /\ last.op = "bookTicket"
    /\ last.ok
    /\ bookings[last.ret].seatNumber = 1
    /\ \E b \in DOMAIN bookings :
         /\ bookings[b].trainId = bookings[last.ret].trainId
         /\ bookings[b].seatNumber = 2

\* C7: the booking ID a successful bookTicket returns was no key of the
\* ledger before the call, is the ID of exactly one ticket after it, and
\* checkTicketStatus finds it.
C7_FreshBookingId ==
    [][(last'.op = "bookTicket" /\ last'.ok /\ pc = "menu")
        => /\ last'.ret \notin DOMAIN bookings
           /\ last'.ret \in DOMAIN bookings'
           /\ Cardinality({k \in DOMAIN bookings' :
                              bookings'[k].bookingId = last'.ret}) = 1
           /\ checkTicketStatus(bookings', last'.ret)]_vars

\* a booking succeeded while the ledger already held a generated ID
C7_Witness ==
    /\ last.op = "bookTicket"
    /\ last.ok
    /\ \E b \in DOMAIN bookings : b # last.ret /\ b \in GenIds

\* C8: from every state, cancelling the ticket a successful bookTicket has
\* just returned succeeds and gives back the registry (so the available
\* count and the seat map of the train) and the ledger of before the booking.
C8_BookCancelRoundTrip ==
    pc = "menu" =>
        \A trainId \in TrainIdInputs, passengerName \in PassengerInputs,
           genId \in generateBookingId(bookings) :
            LET r == bookTicket(trains, bookings, trainId, passengerName, genId,
                                TimeString(run))
                c == cancelTicket(r.trains, r.bookings, r.ret)
            IN  r.ret # NoId =>
                    /\ r.trains # trains
                    /\ c.ret
                    /\ c.trains = trains
                    /\ c.bookings = bookings

\* a booking has just succeeded on a train that had a lower seat taken and
\* its ticket can be cancelled
C8_Witness ==
    /\ last.op = "bookTicket"
    /\ last.ok
    /\ bookings[last.ret].seatNumber > 1
    /\ cancelTicket(trains, bookings, last.ret).ret

\* C9: a successful cancelTicket(bookingId) frees exactly the seat of that
\* ticket on the train its ID resolves to, which was taken, and removes
\* exactly that ticket; nothing else changes.
C9_CancelEffect ==
    [][\A bookingId \in BookingIdInputs :
        (IsCancel(bookingId) /\ last'.ok) =>
            /\ bookingId \in DOMAIN bookings
            /\ LET t  == bookings[bookingId]
                   ix == findTrainRef(trains, t.trainId)
               IN  /\ ix # 0
                   /\ t.seatNumber \in TakenSeats(trains[ix])
                   /\ At(trains'[ix].seatAvailability, t.seatNumber)
                   /\ SameButTrainSeat(trains, trains', ix, t.seatNumber)
            /\ DOMAIN bookings' = (DOMAIN bookings) \ {bookingId}
            /\ \A k \in DOMAIN bookings' : bookings'[k] = bookings[k]]_vars

\* a cancellation succeeded and left another ticket and another taken seat
C9_Witness ==
    /\ last.op = "cancelTicket"
    /\ last.ok
    /\ bookings # NoBookings
    /\ \E i \in 1..Len(trains) : TakenSeats(trains[i]) # {}

\* C10: cancelTicket of an ID that is no ledger key fails with
\* TicketNotFound and changes nothing; after a successful cancelTicket(b),
\* checkTicketStatus(b) fails and a second cancelTicket(b) fails without
\* changing a seat, and b stays out of the ledger until a booking or a
\* reload adds it.
C10_CancelUnknown ==
    [][/\ \A bookingId \in BookingIdInputs :
            /\ (IsCancel(bookingId) /\ bookingId \notin DOMAIN bookings)
               => /\ ~last'.ok
                  /\ last'.err = "TicketNotFound"
                  /\ trains' = trains
                  /\ bookings' = bookings
            /\ (IsCancel(bookingId) /\ last'.ok)
               => /\ ~checkTicketStatus(bookings', bookingId)
                  /\ ~cancelTicket(trains', bookings', bookingId).ret
                  /\ cancelTicket(trains', bookings', bookingId).err = "TicketNotFound"
                  /\ cancelTicket(trains', bookings', bookingId).trains = trains'
       /\ \A b \in (DOMAIN bookings') \ (DOMAIN bookings) :
            last'.op \in {"bookTicket", "startup"}]_vars

\* a cancellation was refused with TicketNotFound while seats were taken
C10_Witness ==
    /\ last.op = "cancelTicket"
    /\ ~last.ok
    /\ last.err = "TicketNotFound"
    /\ \E i \in 1..Len(trains) : TakenSeats(trains[i]) # {}

\* the numbers a trains.csv line declares, read as the loader reads them
DeclaredTrainRow(line) ==
    LET f == ReadFields(line, 4, <<>>)
    IN  IF Len(f.tokens) < 4
        THEN [ok |-> FALSE, trainId |-> 0, trainName |-> <<>>, totalSeats |-> 0,
              availableSeats |-> 0]
        ELSE [ok |-> /\ Stoi(f.tokens[1]).ok
                     /\ Stoi(f.tokens[3]).ok
                     /\ Stoi(f.tokens[4]).ok,
              trainId |-> Stoi(f.tokens[1]).val,
              trainName |-> f.tokens[2],
              totalSeats |-> Stoi(f.tokens[3]).val,
              availableSeats |-> Stoi(f.tokens[4]).val]

\* the step reads a line of trains.csv
IsReadTrainRow == pc = "rows" /\ load.rest # <<>> /\ last'.op = "loadTrainRow"

\* C11: a line of trains.csv that declares 0 <= availableSeats <= totalSeats
\* and from which a train is made adds that train with exactly the seats
\* 1..(totalSeats - availableSeats) taken, so that its count of available
\* seats is the declared availableSeats.
C11_LoadedSeatsMatchRow ==
    [][IsReadTrainRow =>
        LET d == DeclaredTrainRow(Head(load.rest))
        IN  (/\ d.ok
             /\ 0 <= d.availableSeats
             /\ d.availableSeats <= d.totalSeats
             /\ last'.ok)
            => /\ Len(trains') = Len(trains) + 1
               /\ trains'[Len(trains')].totalSeats = d.totalSeats
               /\ TakenSeats(trains'[Len(trains')]) =
                      1..(d.totalSeats - d.availableSeats)
               /\ getAvailableSeatsCount(trains'[Len(trains')]) =
                      d.availableSeats]_vars

\* a train with a taken and an available seat has just been loaded
C11_Witness ==
    /\ pc = "rows"
    /\ last.op = "loadTrainRow"
    /\ last.ok
    /\ trains # <<>>
    /\ TakenSeats(trains[Len(trains)]) = {1}
    /\ AvailableSeats(trains[Len(trains)]) = {2}

\* the fields a tickets.csv line declares, read as the loader reads them;
\* bookingTime is what follows the fourth comma
DeclaredTicketRow(line) ==
    LET f == ReadFields(line, 4, <<>>)
    IN  IF Len(f.tokens) < 4
        THEN [ok |-> FALSE, bookingId |-> <<>>, trainId |-> 0, seatNumber |-> 0,
              passengerName |-> <<>>, bookingTime |-> <<>>]
        ELSE [ok |-> /\ Stoi(f.tokens[2]).ok
                     /\ Stoi(f.tokens[3]).ok
                     /\ f.tokens[1] # <<>>
                     /\ f.tokens[4] # <<>>,
              bookingId |-> f.tokens[1],
              trainId |-> Stoi(f.tokens[2]).val,
              seatNumber |-> Stoi(f.tokens[3]).val,
              passengerName |-> f.tokens[4],
              bookingTime |-> f.rest]

\* the step reads a line of tickets.csv
IsReadTicketRow == pc = "rows" /\ load.rest # <<>> /\ last'.op = "loadTicketRow"

\* C12: a ticket that a line of tickets.csv puts into the ledger carries the
\* bookingTime string of that line.
C12_LoadKeepsBookingTime ==
    [][IsReadTicketRow =>
        LET d == DeclaredTicketRow(Head(load.rest))
        IN  (/\ d.ok
             /\ d.bookingId \notin DOMAIN bookings
             /\ d.bookingId \in DOMAIN bookings')
            => bookings'[d.bookingId].bookingTime = d.bookingTime]_vars

\* C13: a line of tickets.csv that parses and names a train that is not
\* in the registry, a seat the train does not have or a seat that is taken
\* changes no seat and no ticket; any other line that parses marks exactly
\* its seat taken and puts its ticket into the ledger; in each case the
\* load goes on with the next line.
C13_TicketRowEffect ==
    [][IsReadTicketRow =>
        LET d  == DeclaredTicketRow(Head(load.rest))
            ix == findTrainRef(trains, d.trainId)
        IN  /\ load'.rest = Tail(load.rest)
            /\ pc' = "rows"
            /\ d.ok =>
                 IF \/ ix = 0
                    \/ d.seatNumber \notin 1..trains[ix].totalSeats
                    \/ ~At(trains[ix].seatAvailability, d.seatNumber)
                 THEN /\ ~last'.ok
                      /\ trains' = trains
                      /\ bookings' = bookings
                 ELSE /\ ~At(trains'[ix].seatAvailability, d.seatNumber)
                      /\ SameButTrainSeat(trains, trains', ix, d.seatNumber)
                      /\ d.bookingId \in DOMAIN bookings'
                      /\ bookings'[d.bookingId].trainId = d.trainId
                      /\ bookings'[d.bookingId].seatNumber = d.seatNumber
                      /\ bookings'[d.bookingId].passengerName = d.passengerName
                      /\ \A k \in DOMAIN bookings' :
                           k # d.bookingId =>
                               k \in DOMAIN bookings /\ bookings'[k] = bookings[k]]_vars

\* the token is a number: digits, after an optional sign, and nothing else
IsNumeral(token) ==
    LET body == IF token # <<>> /\ Head(token) \in {"-", "+"} THEN Tail(token)
                ELSE token
    IN  /\ body # <<>>
        /\ \A i \in 1..Len(body) : IsDigit(body[i])

\* the line lacks a field, has an ID or a count that is no number, or
\* holds values the Train constructor rejects
MalformedTrainRow(line) ==
    LET f == ReadFields(line, 4, <<>>)
    IN  \/ Len(f.tokens) < 4
        \/ ~IsNumeral(f.tokens[1])
        \/ ~IsNumeral(f.tokens[3])
        \/ ~IsNumeral(f.tokens[4])
        \/ ~NewTrain(Stoi(f.tokens[1]).val, f.tokens[2], Stoi(f.tokens[3]).val).ok

\* C14: a malformed line of trains.csv is skipped with a warning and adds no
\* train, any other line adds its train behind the trains loaded so far, and
\* in each case the load goes on with the next line.
C14_MalformedTrainRowSkipped ==
    [][IsReadTrainRow =>
        /\ load'.rest = Tail(load.rest)
        /\ pc' = "rows"
        /\ IF MalformedTrainRow(Head(load.rest))
           THEN /\ ~last'.ok
                /\ trains' = trains
           ELSE /\ last'.ok
                /\ Len(trains') = Len(trains) + 1
                /\ SubSeq(trains', 1, Len(trains)) = trains
                /\ trains'[Len(trains')].trainId =
                       DeclaredTrainRow(Head(load.rest)).trainId]_vars

\* C15: a line of trains.csv that declares more booked seats than the
\* train has seats adds the train with every seat taken, and the pass
\* prints the warning about inconsistent seat data.
C15_InconsistentRowWarns ==
    [][IsReadTrainRow =>
        LET d == DeclaredTrainRow(Head(load.rest))
        IN  (/\ d.ok
             /\ NewTrain(d.trainId, d.trainName, d.totalSeats).ok
             /\ d.totalSeats - d.availableSeats > d.totalSeats)
            => /\ last'.ok
               /\ Len(trains') = Len(trains) + 1
               /\ getAvailableSeatsCount(trains'[Len(trains')]) = 0
               /\ last'.err = "InconsistentSeatData"]_vars

\* C16: while loadTrainsFromCSV reads the lines of the file, the registry
\* still holds the trains it held before the call.
C16_RegistryKeptDuringLoad ==
    pc = "rows" => trains = DefaultTrains

\* the step is the startup load of a process run
IsStartup == last'.op = "startup"

\* C17: a load of trains.csv that cannot open the file leaves the registry
\* untouched, so that after a startup without trains.csv the registry holds
\* the trains 1001..1004 of 100 seats each, every seat available when no
\* ticket was loaded either; a startup that cannot open tickets.csv leaves
\* the ledger empty; the program goes on to the menu loop in each case.
C17_MissingFilesAtStartup ==
    [][IsStartup =>
        /\ pc' = "loop"
        /\ loadTrainsFromCSV(trains, MissingFile) =
               [opened |-> FALSE, trains |-> trains]
        /\ last'.err \in {"FileIOTrains", "FileIOBoth"} =>
             /\ Len(trains') = 4
             /\ \A i \in 1..4 :
                  /\ trains'[i].trainId = 1000 + i
                  /\ trains'[i].totalSeats = 100
                  /\ trains'[i].seatAvailability.size = 100
                  /\ bookings' = NoBookings =>
                         getAvailableSeatsCount(trains'[i]) = 100
        /\ last'.err \in {"FileIOTickets", "FileIOBoth"} =>
             bookings' = NoBookings
        /\ last'.err = "FileIOBoth" => trains' = DefaultTrains]_vars

\* a second run found no trains.csv and loaded a ticket from tickets.csv
C17_Witness ==
    /\ last.op = "startup"
    /\ last.err = "FileIOTrains"
    /\ run = 2
    /\ bookings # NoBookings

\* the seat vector of the train has totalSeats elements, and its available
\* and its taken seats add up to totalSeats
SeatCountsAddUp(train) ==
    /\ train.seatAvailability.size = train.totalSeats
    /\ train.seatAvailability.off \subseteq 1..train.seatAvailability.size
    /\ getAvailableSeatsCount(train) \in 0..train.totalSeats
    /\ getAvailableSeatsCount(train) + Cardinality(TakenSeats(train)) =
           train.totalSeats

\* C18: in every state (after a load, a booking, a cancellation) the
\* available and the taken seats of each train add up to its totalSeats and
\* the available count lies in 0..totalSeats; no operation of the menu
\* changes the totalSeats or the length of the seat vector of a train.
\* The counts are looked at for the trains of the constructor and for each
\* train a step has made or changed, which are all trains of all states.
C18_SeatCountsAddUp ==
    [][/\ pc = "start" => \A i \in 1..Len(trains) : SeatCountsAddUp(trains[i])
       /\ \A i \in 1..Len(trains') :
            (i > Len(trains) \/ trains'[i] # trains[i])
            => SeatCountsAddUp(trains'[i])
       /\ ~IsStartup =>
            /\ Len(trains') = Len(trains)
            /\ \A i \in 1..Len(trains) :
                 /\ trains'[i].totalSeats = trains[i].totalSeats
                 /\ trains'[i].seatAvailability.size =
                        trains[i].seatAvailability.size]_vars

\* a booking succeeded in a second run on a train loaded from trains.csv
\* that has a seat taken and a seat available
C18_Witness ==
    /\ last.op = "bookTicket"
    /\ last.ok
    /\ run = 2
    /\ \E i \in 1..Len(trains) :
         /\ trains[i].totalSeats < DefaultSeats
         /\ TakenSeats(trains[i]) # {}
         /\ AvailableSeats(trains[i]) # {}

\* the step is a call checkSeatAvailability(trainId)
IsCheckSeat(trainId) ==
    last'.op = "checkSeatAvailability" /\ CheckSeatAvailability(trainId)

\* the step is a call checkTicketStatus(bookingId)
IsCheckStatus(bookingId) ==
    last'.op = "checkTicketStatus" /\ CheckTicketStatus(bookingId)

\* C19: checkSeatAvailability and checkTicketStatus change neither the
\* registry nor the ledger; checkSeatAvailability fails, with TrainNotFound,
\* exactly when no train has the ID, and checkTicketStatus returns false
\* exactly when the booking ID is no key of the ledger.
C19_QueriesReadOnly ==
    [][/\ \A trainId \in TrainIdInputs :
            IsCheckSeat(trainId) =>
                /\ trains' = trains
                /\ bookings' = bookings
                /\ ~last'.ok <=> ~\E i \in 1..Len(trains) : trains[i].trainId = trainId
                /\ ~last'.ok <=> last'.err = "TrainNotFound"
       /\ \A bookingId \in BookingIdInputs :
            IsCheckStatus(bookingId) =>
                /\ trains' = trains
                /\ bookings' = bookings
                /\ ~last'.ok <=> bookingId \notin DOMAIN bookings
                /\ ~last'.ok <=> last'.err = "TicketNotFound"]_vars

\* checkSeatAvailability failed for want of the train while the ledger held
\* a ticket
C19_Witness ==
    /\ last.op = "checkSeatAvailability"
    /\ ~last.ok
    /\ last.err = "TrainNotFound"
    /\ bookings # NoBookings

\* the step is menu choice 0
IsExit == pc = "menu" /\ last'.op = "exit"

\* tickets.csv as saveTicketsToCSV writes it for the ledger, in some order
TicketFilesOf(bk) == {saveTicketsToCSV(bk, order) : order \in KeyOrders(bk)}

\* C20: menu choice 0 always ends the menu loop, whatever save fails; the
\* train save is tried and, whether or not it failed, the ticket save is
\* tried; each save that does not fail writes its file from the state at
\* exit and each failure is reported; registry and ledger are not changed.
C20_ExitSavesBoth ==
    [][IsExit =>
        /\ pc' = "exited"
        /\ trains' = trains
        /\ bookings' = bookings
        /\ last'.err \in {"None", "FileIOTrains", "FileIOTickets", "FileIOBoth"}
        /\ last'.ok <=> last'.err = "None"
        /\ last'.err \in {"None", "FileIOTickets"} =>
             trainsCsv' = [known |-> TRUE, lines |-> saveTrainsToCSV(trains)]
        /\ last'.err \in {"None", "FileIOTrains"} =>
             /\ ticketsCsv'.known
             /\ ticketsCsv'.lines \in TicketFilesOf(bookings)]_vars

\* the program has ended after a failed save of the trains and a save of
\* the tickets that wrote a ticket
C20_Witness ==
    /\ pc = "exited"
    /\ last.op = "exit"
    /\ last.err = "FileIOTrains"
    /\ ticketsCsv.known
    /\ Len(ticketsCsv.lines) > 1

\* C21: in every state cancelTicket(b) returns true exactly when b is a key
\* of the ledger, and fails with TicketNotFound when it is not: the train
\* of a ticket is always found and its seat is in range and taken, so the
\* other failure branches of cancelTicket are never taken.
C21_CancelFailsOnlyOnUnknownId ==
    \A b \in BookingIdInputs \cup DOMAIN bookings :
        LET c == cancelTicket(trains, bookings, b)
        IN  /\ c.ret <=> b \in DOMAIN bookings
            /\ c.err = IF b \in DOMAIN bookings THEN "None" ELSE "TicketNotFound"

\* a cancellation succeeded in a second run and left a ticket that can be
\* cancelled in its turn
C21_Witness ==
    /\ last.op = "cancelTicket"
    /\ last.ok
    /\ run = 2
    /\ \E b \in DOMAIN bookings : cancelTicket(trains, bookings, b).ret

\* seat numbers of the tickets the ledger holds for the train ID
TicketSeats(bk, trainId) ==
    {bk[b].seatNumber : b \in {k \in DOMAIN bk : bk[k].trainId = trainId}}

\* C22: in every state after the startup load, the taken seats of each
\* train that a lookup by ID finds are the seat numbers of the tickets the
\* ledger holds for that train ID.
C22_TakenSeatsHaveTickets ==
    pc # "start" =>
        \A i \in 1..Len(trains) :
            findTrainRef(trains, trains[i].trainId) = i
            => TakenSeats(trains[i]) = TicketSeats(bookings, trains[i].trainId)

\* some ID of the ID space is not a ledger key
SomeIdFree == \E id \in GenIds : id \notin DOMAIN bookings

\* C23: generateBookingId returns only an ID that is not a ledger key, and
\* under fair draws a call of bookTicket that has taken its seat, made while
\* some ID of the ID space is not in the ledger, eventually completes with
\* its ticket in the ledger.
C23_GeneratorReturnsFreshId ==
    /\ [][(call.at = "test" /\ call'.at = "none")
          => /\ call.id \notin DOMAIN bookings
             /\ last'.ret = call.id
             /\ DOMAIN bookings' = DOMAIN bookings \cup {call.id}]_vars
    /\ (call.at = "draw" /\ SomeIdFree)
          ~> (call.at = "none" /\ last.op = "bookTicket" /\ last.ok)

\* the generator has drawn a ledger key while another ID is not in the
\* ledger: the call has to retry, and can return
C23_Witness ==
    /\ call.at = "test"
    /\ call.id \in DOMAIN bookings
    /\ SomeIdFree

\* positions of the registry whose train ID also stands at a lower position
LaterDuplicates(tr) ==
    {i \in 1..Len(tr) : \E j \in 1..(i - 1) : tr[j].trainId = tr[i].trainId}

\* the lowest position of the registry that holds the train ID, if any
FirstWithId(tr, trainId) ==
    {i \in 1..Len(tr) : tr[i].trainId = trainId /\ i \notin LaterDuplicates(tr)}

\* the registry as the load of the trains.csv of the run before makes it
ReloadedTrains ==
    loadTrainsFromCSV(DefaultTrains,
                      IF trainsCsv.known
                      THEN [exists |-> TRUE, lines |-> trainsCsv.lines]
                      ELSE MissingFile).trains

\* C24: every operation on a train ID reads and changes the first train of
\* the registry with that ID.  No menu operation changes a train that stands
\* after another train of the same ID; bookTicket takes the lowest available
\* seat of the first train and fails with NoSeatsAvailable when the first
\* train is full; cancelTicket frees the seat on the first train;
\* checkSeatAvailability reports the counts of the first train; and after
\* the startup of a later run the later duplicates are as the load of the
\* saved trains.csv made them, whatever the saved tickets.csv held.
C24_FirstDuplicateServes ==
    [][/\ pc = "menu"
          => /\ Len(trains') = Len(trains)
             /\ \A i \in LaterDuplicates(trains) : trains'[i] = trains[i]
       /\ \A t \in TrainIdInputs :
            /\ (\E n \in PassengerInputs \ {<<>>} : IsBook(t, n))
               => \A i \in FirstWithId(trains, t) :
                     IF AvailableSeats(trains[i]) = {}
                     THEN last'.err = "NoSeatsAvailable" /\ trains' = trains
                     ELSE /\ last'.ok
                          /\ \E s \in AvailableSeats(trains[i]) :
                               /\ \A u \in AvailableSeats(trains[i]) : s <= u
                               /\ bookings'[last'.ret].seatNumber = s
                               /\ TakenSeats(trains'[i]) = TakenSeats(trains[i]) \cup {s}
            /\ IsCheckSeat(t)
               => \A i \in FirstWithId(trains, t) :
                     /\ checkSeatAvailability(trains, t).available
                            = Cardinality(AvailableSeats(trains[i]))
                     /\ checkSeatAvailability(trains, t).total = trains[i].totalSeats
       /\ \A b \in DOMAIN bookings :
            IsCancel(b)
            => \A i \in FirstWithId(trains, bookings[b].trainId) :
                  TakenSeats(trains'[i])
                      = TakenSeats(trains[i]) \ {bookings[b].seatNumber}
       /\ (pc = "exited" /\ IsStartup)
          => \E lt \in {ReloadedTrains} :
                /\ Len(lt) = Len(trains')
                /\ \A i \in LaterDuplicates(lt) : trains'[i] = lt[i]
      ]_vars

\* a ticket was sold on a train ID that the registry holds twice, the later
\* train of that ID having an available seat
C24_Witness ==
    /\ last.op = "bookTicket"
    /\ last.ok
    /\ \E i \in LaterDuplicates(trains) :
         /\ trains[i].trainId = bookings[last.ret].trainId
         /\ AvailableSeats(trains[i]) # {}

\* C25: in every state no two tickets of the ledger with different booking
\* IDs hold the same seat of the same train ID.
C25_NoSeatSoldTwice ==
    \A a \in DOMAIN bookings : \A b \in DOMAIN bookings :
        (bookings[a].trainId = bookings[b].trainId
         /\ bookings[a].seatNumber = bookings[b].seatNumber) => a = b

\* bookTicket has just sold a second seat of a train
C25_Witness ==
    /\ last.op = "bookTicket"
    /\ last.ok
    /\ \E b \in DOMAIN bookings :
         /\ b # last.ret
         /\ bookings[b].trainId = bookings[last.ret].trainId

\* C26: a line of tickets.csv that changes a seat leaves in the ledger a
\* ticket with the booking ID, train ID and seat number of that line, and a
\* line that leaves the ledger as it was changes no seat.
C26_TicketRowAtomic ==
    [][IsReadTicketRow =>
        LET d == DeclaredTicketRow(Head(load.rest))
        IN  /\ trains' # trains
               => /\ d.bookingId \in DOMAIN bookings'
                  /\ bookings'[d.bookingId].trainId = d.trainId
                  /\ bookings'[d.bookingId].seatNumber = d.seatNumber
            /\ bookings' = bookings => trains' = trains]_vars

====
